---- MODULE Spec2Model ----
(***************************************************************************)
(* IAMAuthPolicyController (controllers/iamauthpolicy_controller.go).      *)
(*                                                                         *)
(* One IAMAuthPolicy record lives in the Kubernetes store.  Reconcile      *)
(* fetches it, runs handleFinalizer on the fetched copy, selects one of    *)
(* four pipelines from (targetRef.kind, deletion timestamp), runs it       *)
(* against VPC Lattice and writes the copy back.  Every call that leaves   *)
(* the process (Get, Find*, Enable*, Disable*, Put, Delete, Update) is one *)
(* step, so that users, the API server and Lattice interleave with a       *)
(* running Reconcile.                                                      *)
(***************************************************************************)
EXTENDS Naturals, Sequences, FiniteSets, TLC

VARIABLES
    store,            \* the IAMAuthPolicy record in the API server, or NoRecord
    serviceNetworks,  \* Lattice: k8s gateway name -> service network id
    services,         \* Lattice: lattice service name -> service id
    authType,         \* Lattice: resource id -> TRUE when auth type is AWS_IAM
    authPolicy,       \* Lattice: resource id -> attached auth policy text
    workers,          \* the reconcile workers the manager runs for this key
    pc,               \* per worker: position inside Reconcile
    k8sPolicy,        \* per worker: the fetched copy of the record
    fresh,            \* per worker: the copy has the store's resourceVersion
    reconcileFunc,    \* per worker: the selected pipeline
    step,             \* per worker: index of the next pipeline step
    resId,            \* per worker: snId / svcId of the running pipeline
    err,              \* per worker: the err variable of Reconcile
    result,           \* per worker: what the last Reconcile returned
    calls,            \* per worker: calls of the current Reconcile, in order
    fetched,          \* per worker: the record as Get returned it
    runs              \* the last two pipeline executions that no change of
                      \* the record or of Lattice by others came between

vars == <<store, serviceNetworks, services, authType, authPolicy, workers, pc,
          k8sPolicy, fresh, reconcileFunc, step, resId, err, result, calls,
          fetched, runs>>

lattice == <<serviceNetworks, services, authType, authPolicy>>
locals  == <<k8sPolicy, fresh, reconcileFunc, step, resId, err, result, calls,
            fetched>>

-----------------------------------------------------------------------------
(* Values *)

authPolicyFinalizer == "iamauthpolicy.k8s.aws/resources"
otherFinalizer      == "example.com/protect"
resourceIdKey       == "application-networking.k8s.aws/resourceId"

Hour          == 3600
ThirtySeconds == 30
NoRequeue     == 0

nil      == "nil"
NoId     == ""
NoPolicy == "NoPolicy"
NoFunc   == "none"

SupportedKinds == {"Gateway", "HTTPRoute", "GRPCRoute"}
Kinds          == SupportedKinds \cup {"Service"}
Namespace      == "ns1"
Policies       == {"{allow-a}", "{allow-b}"}

AllWorkers == {"w1", "w2"}

\* errors of the three collaborators
LatticeNotFound == "lattice: NotFoundException"
LatticeOther    == "lattice: AccessDeniedException"
K8sNotFound     == "k8s: NotFound"
K8sConflict     == "k8s: Conflict"
K8sOther        == "k8s: InternalError"

\* the name a policy of each kind points at
TargetName(kind) ==
    CASE kind = "Gateway"   -> "gw1"
      [] kind = "HTTPRoute" -> "route1"
      [] kind = "GRPCRoute" -> "route1"
      [] OTHER              -> "svc1"

LatticeServiceName(name, namespace) == name \o "-" \o namespace

SnNames  == {"gw1", "gw2"}
SvcNames == {LatticeServiceName("route1", Namespace)}
SnIds    == {"sn-123", "sn-456"}
SvcIds   == {"svc-123"}
ResourceIds == SnIds \cup SvcIds

\* the service network of another gateway, there for the whole run
OtherSn == "sn-456"

-----------------------------------------------------------------------------
(* The IAMAuthPolicy record *)

\* metadata.annotations is a Go map: nil when the object carries no
\* annotation at all, otherwise a map that may hold the resource id
NilAnnotations   == [isNil |-> TRUE,  resourceId |-> NoId]
EmptyAnnotations == [isNil |-> FALSE, resourceId |-> NoId]
Annotated(id)    == [isNil |-> FALSE, resourceId |-> id]

NewPolicy(kind, finalizers, annotations) ==
    [ Kind              |-> kind,
      Name              |-> TargetName(kind),
      Namespace         |-> Namespace,
      Policy            |-> "{allow-a}",
      DeletionTimestamp |-> FALSE,
      Finalizers        |-> finalizers,
      Annotations       |-> annotations ]

\* k8sPolicy := &anv1alpha1.IAMAuthPolicy{}
ZeroPolicy ==
    [ Kind              |-> "",
      Name              |-> "",
      Namespace         |-> "",
      Policy            |-> "",
      DeletionTimestamp |-> FALSE,
      Finalizers        |-> {},
      Annotations       |-> NilAnnotations ]

\* what Get finds, and what the store holds, when the record does not exist
NoRecord == [ZeroPolicy EXCEPT !.Kind = "NoRecord"]

ContainsFinalizer(p, f) == f \in p.Finalizers
AddFinalizer(p, f)      == [p EXCEPT !.Finalizers = @ \cup {f}]
RemoveFinalizer(p, f)   == [p EXCEPT !.Finalizers = @ \ {f}]

\* handleFinalizer without the branch for a record under deletion
handleFinalizerAddOnly(p) ==
    IF ~p.DeletionTimestamp /\ ~ContainsFinalizer(p, authPolicyFinalizer)
    THEN AddFinalizer(p, authPolicyFinalizer)
    ELSE p

\* handleFinalizer letting go of every finalizer of a record under deletion
handleFinalizerClearsAll(p) ==
    IF ~p.DeletionTimestamp
    THEN IF ~ContainsFinalizer(p, authPolicyFinalizer)
         THEN AddFinalizer(p, authPolicyFinalizer)
         ELSE p
    ELSE [p EXCEPT !.Finalizers = {}]

\* handleFinalizer on the fetched copy
handleFinalizer(p) ==
    IF ~p.DeletionTimestamp
    THEN IF ~ContainsFinalizer(p, authPolicyFinalizer)
         THEN AddFinalizer(p, authPolicyFinalizer)
         ELSE p
    ELSE IF ContainsFinalizer(p, authPolicyFinalizer)
         THEN RemoveFinalizer(p, authPolicyFinalizer)
         ELSE p

\* isDelete := !k8sPolicy.DeletionTimestamp.IsZero()
isDelete(p) == p.DeletionTimestamp

\* the switch without its default branch: any other kind falls into the
\* route case
SelectReconcileFuncNoDefault(kind, isDel) ==
    IF kind = "Gateway"
    THEN IF isDel THEN "deleteGatewayPolicy" ELSE "upsertGatewayPolicy"
    ELSE IF isDel THEN "deleteRoutePolicy" ELSE "upsertRoutePolicy"

\* the switch with GRPCRoute in the Gateway case
SelectReconcileFuncGrpcAsGateway(kind, isDel) ==
    CASE kind \in {"Gateway", "GRPCRoute"} ->
           IF isDel THEN "deleteGatewayPolicy" ELSE "upsertGatewayPolicy"
      [] kind = "HTTPRoute" ->
           IF isDel THEN "deleteRoutePolicy" ELSE "upsertRoutePolicy"
      [] OTHER -> NoFunc

\* the switch on kind in Reconcile; NoFunc is the default branch
SelectReconcileFunc(kind, isDel) ==
    CASE kind = "Gateway" ->
           IF isDel THEN "deleteGatewayPolicy" ELSE "upsertGatewayPolicy"
      [] kind \in {"HTTPRoute", "GRPCRoute"} ->
           IF isDel THEN "deleteRoutePolicy" ELSE "upsertRoutePolicy"
      [] OTHER -> NoFunc

\* deleteGatewayPolicy with the two manager calls in the other order
deleteGatewayPolicyDisableFirst == <<"findSnId", "DisableSnIAMAuth", "Delete">>

\* upsertGatewayPolicy replacing the document by delete-then-put
upsertGatewayPolicyClearFirst ==
    <<"findSnId", "Delete", "EnableSnIAMAuth", "putPolicy">>

\* upsertRoutePolicy returning after the enable call
upsertRoutePolicyNoPut == <<"findSvcId", "EnableSvcIAMAuth">>

\* deleteRoutePolicy returning after its Delete call
deleteRoutePolicyNoDisable == <<"findSvcId", "Delete">>

\* deleteRoutePolicy ending with the enable call of upsertRoutePolicy
deleteRoutePolicyEnables == <<"findSvcId", "Delete", "EnableSvcIAMAuth">>

\* deleteGatewayPolicy returning after its Delete call
deleteGatewayPolicyNoDisable == <<"findSnId", "Delete">>

\* the calls of each pipeline, in the order the function makes them
deleteGatewayPolicy == <<"findSnId", "Delete", "DisableSnIAMAuth">>
upsertGatewayPolicy == <<"findSnId", "EnableSnIAMAuth", "putPolicy">>
deleteRoutePolicy   == <<"findSvcId", "Delete", "DisableSvcIAMAuth">>
upsertRoutePolicy   == <<"findSvcId", "EnableSvcIAMAuth", "putPolicy">>

Pipeline(f) ==
    CASE f = "deleteGatewayPolicy" -> deleteGatewayPolicy
      [] f = "upsertGatewayPolicy" -> upsertGatewayPolicy
      [] f = "deleteRoutePolicy"   -> deleteRoutePolicy
      [] f = "upsertRoutePolicy"   -> upsertRoutePolicy
      [] OTHER                     -> << >>

\* services.IsNotFoundError
IsNotFoundError(e) == e = LatticeNotFound

\* client.IgnoreNotFound
IgnoreNotFound(e) == IF e = K8sNotFound THEN nil ELSE e

Result(requeueAfter, e) == [RequeueAfter |-> requeueAfter, err |-> e]

\* the not-found case left out: every pipeline error is returned
PipelineErrorResultNoRequeue(e) == Result(NoRequeue, e)

\* what Reconcile returns for the error of a pipeline
PipelineErrorResult(e) ==
    IF IsNotFoundError(e)
    THEN Result(ThirtySeconds, nil)
    ELSE Result(NoRequeue, e)

\* the error of Get returned without IgnoreNotFound
GetErrorResultUnfiltered(e) == Result(NoRequeue, e)

\* what Reconcile returns for the error of Get
GetErrorResult(e) == Result(NoRequeue, IgnoreNotFound(e))

\* the error of Update swallowed into a requeue
UpdateErrorResultRequeue(e) == Result(ThirtySeconds, nil)

\* what Reconcile returns for the error of Update
UpdateErrorResult(e) == Result(NoRequeue, e)

\* what Reconcile returns for an unsupported kind
UnsupportedResult == Result(Hour, nil)

\* k8sPolicy.Annotations[resourceIdKey] = latticeResourceId on a nil map
Panic == "panic: assignment to entry in nil map"

Call(op, id, text) == [op |-> op, id |-> id, text |-> text]

NoRun == [func |-> NoFunc, ok |-> FALSE, authType |-> << >>, authPolicy |-> << >>]

\* no execution to compare; dirty: the workers whose running Reconcile has
\* seen a change by others since its Get
NoRuns(dirty) == [prev |-> NoRun, last |-> NoRun, dirty |-> dirty]
-----------------------------------------------------------------------------
(* VPC Lattice and the IAMAuthPolicyManager *)

SnExists(id)  == \E n \in SnNames : serviceNetworks[n] = id /\ id # NoId
SvcExists(id) == \E n \in SvcNames : services[n] = id /\ id # NoId
ResourceExists(id) == SnExists(id) \/ SvcExists(id)

\* Lattice().FindServiceNetworkByK8sName: the id, or NoId for not found
FindServiceNetworkByK8sName(name) ==
    IF name \in SnNames THEN serviceNetworks[name] ELSE NoId

\* Lattice().FindServiceByK8sName: the id, or NoId for not found
FindServiceByK8sName(name) ==
    IF name \in SvcNames THEN services[name] ELSE NoId

\* policyMgr.EnableSnIAMAuth / EnableSvcIAMAuth: auth type := AWS_IAM
EnableIAMAuth(id)  == [authType EXCEPT ![id] = TRUE]
\* policyMgr.DisableSnIAMAuth / DisableSvcIAMAuth: auth type := NONE
DisableIAMAuth(id) == [authType EXCEPT ![id] = FALSE]
\* policyMgr.Put: the policy document of the resource is overwritten
PutAuthPolicy(modelPolicy) ==
    [authPolicy EXCEPT ![modelPolicy.ResourceId] = modelPolicy.Policy]
\* policyMgr.Delete: the resource has no policy document afterwards
DeleteAuthPolicy(id) == [authPolicy EXCEPT ![id] = NoPolicy]

\* model.IAMAuthPolicy{ResourceId: resId, Policy: policy} in putPolicy
ModelPolicy(id, policy) == [ResourceId |-> id, Policy |-> policy]

-----------------------------------------------------------------------------
(* Initial state *)

InitialAnnotations == {NilAnnotations, EmptyAnnotations, Annotated(OtherSn)}

\* no Reconcile has run yet
InitWorkers(ws) ==
    /\ workers = ws
    /\ pc = [w \in AllWorkers |-> "idle"]
    /\ k8sPolicy = [w \in AllWorkers |-> ZeroPolicy]
    /\ fresh = [w \in AllWorkers |-> FALSE]
    /\ reconcileFunc = [w \in AllWorkers |-> NoFunc]
    /\ step = [w \in AllWorkers |-> 1]
    /\ resId = [w \in AllWorkers |-> NoId]
    /\ err = [w \in AllWorkers |-> nil]
    /\ result = [w \in AllWorkers |-> Result(NoRequeue, nil)]
    /\ calls = [w \in AllWorkers |-> << >>]
    /\ fetched = [w \in AllWorkers |-> NoRecord]
    /\ runs = NoRuns({})

InitWith(ws) ==
    /\ store \in { NewPolicy(k, f, a) :
                     k \in Kinds,
                     f \in {{}, {otherFinalizer}},
                     a \in InitialAnnotations }
    /\ serviceNetworks = [n \in SnNames |-> IF n = "gw2" THEN OtherSn ELSE NoId]
    /\ services = [n \in SvcNames |-> NoId]
    /\ authType = [id \in ResourceIds |-> FALSE]
    /\ authPolicy = [id \in ResourceIds |-> NoPolicy]
    /\ InitWorkers(ws)

Init == InitWith({"w1"})

-----------------------------------------------------------------------------
(* Reconcile, first part: Get, handleFinalizer, the switch on kind *)

Return(w, res) ==
    /\ result' = [result EXCEPT ![w] = res]
    /\ pc' = [pc EXCEPT ![w] = "done"]

ReconcileBegin(w) ==
    /\ w \in workers
    /\ pc[w] \in {"idle", "done"}
    /\ calls' = [calls EXCEPT ![w] = <<Call("Get", NoId, "")>>]
    /\ resId' = [resId EXCEPT ![w] = NoId]
    /\ step' = [step EXCEPT ![w] = 1]
    /\ runs' = [runs EXCEPT !.dirty = @ \ {w}]
    /\ UNCHANGED <<store, lattice, workers>>
    /\ \/ \* Get fails for a reason other than not-found
          /\ err' = [err EXCEPT ![w] = K8sOther]
          /\ Return(w, GetErrorResult(K8sOther))
          /\ k8sPolicy' = [k8sPolicy EXCEPT ![w] = ZeroPolicy]
          /\ fetched' = [fetched EXCEPT ![w] = NoRecord]
          /\ reconcileFunc' = [reconcileFunc EXCEPT ![w] = NoFunc]
          /\ fresh' = [fresh EXCEPT ![w] = FALSE]
       \/ \* the record is gone
          /\ store = NoRecord
          /\ err' = [err EXCEPT ![w] = K8sNotFound]
          /\ Return(w, GetErrorResult(K8sNotFound))
          /\ k8sPolicy' = [k8sPolicy EXCEPT ![w] = ZeroPolicy]
          /\ fetched' = [fetched EXCEPT ![w] = NoRecord]
          /\ reconcileFunc' = [reconcileFunc EXCEPT ![w] = NoFunc]
          /\ fresh' = [fresh EXCEPT ![w] = FALSE]
       \/ \* the record is there
          /\ store # NoRecord
          /\ LET p == handleFinalizer(store)
                 f == SelectReconcileFunc(p.Kind, isDelete(p))
             IN /\ k8sPolicy' = [k8sPolicy EXCEPT ![w] = p]
                /\ fetched' = [fetched EXCEPT ![w] = store]
                /\ fresh' = [fresh EXCEPT ![w] = TRUE]
                /\ reconcileFunc' = [reconcileFunc EXCEPT ![w] = f]
                /\ err' = [err EXCEPT ![w] = nil]
                /\ IF f = NoFunc
                   THEN Return(w, UnsupportedResult)
                   ELSE /\ pc' = [pc EXCEPT ![w] = "pipeline"]
                        /\ UNCHANGED result

-----------------------------------------------------------------------------
(* The pipelines, one action per call *)

CurrentStep(w) ==
    IF w \in workers /\ pc[w] = "pipeline"
    THEN Pipeline(reconcileFunc[w])[step[w]]
    ELSE "none"

Snapshot(w, ok, at, ap) ==
    IF w \in runs.dirty
    THEN NoRuns(runs.dirty)
    ELSE [prev  |-> runs.last,
          last  |-> [func |-> reconcileFunc[w], ok |-> ok,
                     authType |-> at, authPolicy |-> ap],
          dirty |-> runs.dirty]

\* the error of the step is dropped and the pipeline goes on
StepFailsGoesOn(w, call, e) ==
    /\ calls' = [calls EXCEPT ![w] = Append(@, call)]
    /\ err' = [err EXCEPT ![w] = e]
    /\ resId' = [resId EXCEPT ![w] = NoId]
    /\ IF step[w] = Len(Pipeline(reconcileFunc[w]))
       THEN pc' = [pc EXCEPT ![w] = "writeback"] /\ UNCHANGED step
       ELSE step' = [step EXCEPT ![w] = @ + 1] /\ UNCHANGED pc
    /\ UNCHANGED <<store, lattice, workers, k8sPolicy, fresh, reconcileFunc,
                   result, fetched, runs>>

\* the failing Reconcile stores its copy of the record on the way out
StepFailsPersists(w, call, e) ==
    /\ calls' = [calls EXCEPT ![w] = Append(@, call)]
    /\ err' = [err EXCEPT ![w] = e]
    /\ Return(w, PipelineErrorResult(e))
    /\ resId' = [resId EXCEPT ![w] = NoId]
    /\ store' = IF store = NoRecord THEN store ELSE k8sPolicy[w]
    /\ UNCHANGED <<lattice, workers, k8sPolicy, fresh, reconcileFunc,
                   step, fetched, runs>>

\* the step returns an error: the pipeline returns ("", err)
StepFails(w, call, e) ==
    /\ calls' = [calls EXCEPT ![w] = Append(@, call)]
    /\ err' = [err EXCEPT ![w] = e]
    /\ Return(w, PipelineErrorResult(e))
    /\ resId' = [resId EXCEPT ![w] = NoId]
    /\ runs' = Snapshot(w, FALSE, authType, authPolicy)
    /\ UNCHANGED <<store, lattice, workers, k8sPolicy, fresh, reconcileFunc,
                   step, fetched>>

\* the step returns nil: on to the next call, or back to Reconcile
StepDone(w, call, at, ap) ==
    /\ calls' = [calls EXCEPT ![w] = Append(@, call)]
    /\ authType' = at
    /\ authPolicy' = ap
    /\ IF step[w] = Len(Pipeline(reconcileFunc[w]))
       THEN /\ pc' = [pc EXCEPT ![w] = "writeback"]
            /\ runs' = Snapshot(w, TRUE, at, ap)
            /\ UNCHANGED step
       ELSE /\ step' = [step EXCEPT ![w] = @ + 1]
            /\ UNCHANGED <<pc, runs>>
    /\ UNCHANGED <<store, serviceNetworks, services, workers, k8sPolicy, fresh,
                   reconcileFunc, err, result, fetched>>

\* a call on a resource: it fails when Lattice fails or the resource is gone
ManagerCall(w, op, exists, at, ap) ==
    LET call == Call(op, resId[w], "") IN
    \/ StepFails(w, call, LatticeOther)
    \/ /\ ~exists
       /\ StepFails(w, call, LatticeNotFound)
    \/ /\ exists
       /\ StepDone(w, call, at, ap) /\ UNCHANGED resId

findSnId(w) ==
    /\ CurrentStep(w) = "findSnId"
    /\ LET name == k8sPolicy[w].Name
           id   == FindServiceNetworkByK8sName(name)
           call == Call("FindServiceNetworkByK8sName", NoId, name)
       IN \/ StepFails(w, call, LatticeOther)
          \/ /\ id = NoId
             /\ StepFails(w, call, LatticeNotFound)
          \/ /\ id # NoId
             /\ resId' = [resId EXCEPT ![w] = id]
             /\ StepDone(w, call, authType, authPolicy)

findSvcId(w) ==
    /\ CurrentStep(w) = "findSvcId"
    /\ LET svcName == LatticeServiceName(k8sPolicy[w].Name, k8sPolicy[w].Namespace)
           id      == FindServiceByK8sName(svcName)
           call    == Call("FindServiceByK8sName", NoId, svcName)
       IN \/ StepFails(w, call, LatticeOther)
          \/ /\ id = NoId
             /\ StepFails(w, call, LatticeNotFound)
          \/ /\ id # NoId
             /\ resId' = [resId EXCEPT ![w] = id]
             /\ StepDone(w, call, authType, authPolicy)

EnableSnIAMAuth(w) ==
    /\ CurrentStep(w) = "EnableSnIAMAuth"
    /\ ManagerCall(w, "EnableSnIAMAuth", SnExists(resId[w]),
                   EnableIAMAuth(resId[w]), authPolicy)

EnableSvcIAMAuth(w) ==
    /\ CurrentStep(w) = "EnableSvcIAMAuth"
    /\ ManagerCall(w, "EnableSvcIAMAuth", SvcExists(resId[w]),
                   EnableIAMAuth(resId[w]), authPolicy)

DisableSnIAMAuth(w) ==
    /\ CurrentStep(w) = "DisableSnIAMAuth"
    /\ ManagerCall(w, "DisableSnIAMAuth", SnExists(resId[w]),
                   DisableIAMAuth(resId[w]), authPolicy)

DisableSvcIAMAuth(w) ==
    /\ CurrentStep(w) = "DisableSvcIAMAuth"
    /\ ManagerCall(w, "DisableSvcIAMAuth", SvcExists(resId[w]),
                   DisableIAMAuth(resId[w]), authPolicy)

Delete(w) ==
    /\ CurrentStep(w) = "Delete"
    /\ ManagerCall(w, "Delete", ResourceExists(resId[w]),
                   authType, DeleteAuthPolicy(resId[w]))

putPolicy(w) ==
    /\ CurrentStep(w) = "putPolicy"
    /\ LET modelPolicy == ModelPolicy(resId[w], k8sPolicy[w].Policy)
           call == Call("Put", modelPolicy.ResourceId, modelPolicy.Policy)
       IN \/ StepFails(w, call, LatticeOther)
          \/ /\ ~ResourceExists(modelPolicy.ResourceId)
             /\ StepFails(w, call, LatticeNotFound)
          \/ /\ ResourceExists(modelPolicy.ResourceId)
             /\ StepDone(w, call, authType, PutAuthPolicy(modelPolicy))
             /\ UNCHANGED resId
-----------------------------------------------------------------------------
(* Reconcile, last part: the annotation and client.Update *)

\* the API server drops a record under deletion once no finalizer is left
Finalize(p) ==
    IF p # NoRecord /\ p.DeletionTimestamp /\ p.Finalizers = {}
    THEN NoRecord
    ELSE p

\* a write to the record changes its resourceVersion under every other copy
Stale(w) == [v \in AllWorkers |-> IF v = w THEN fresh[v] ELSE FALSE]

\* k8sPolicy.Annotations[resourceIdKey] = latticeResourceId
SetResourceId(p, latticeResourceId) ==
    [p EXCEPT !.Annotations = Annotated(latticeResourceId)]

ReconcileWriteBack(w) ==
    /\ w \in workers
    /\ pc[w] = "writeback"
    /\ UNCHANGED <<lattice, workers, reconcileFunc, step, resId, fetched, runs>>
    /\ IF k8sPolicy[w].Annotations.isNil
       THEN \* the assignment to the nil map panics; Update is not reached
            /\ Return(w, Result(NoRequeue, Panic))
            /\ UNCHANGED <<store, k8sPolicy, fresh, calls, err>>
       ELSE LET p == SetResourceId(k8sPolicy[w], resId[w]) IN
            /\ k8sPolicy' = [k8sPolicy EXCEPT ![w] = p]
            /\ calls' = [calls EXCEPT ![w] = Append(@, Call("Update", resId[w], ""))]
            /\ \/ /\ err' = [err EXCEPT ![w] = K8sOther]
                  /\ Return(w, UpdateErrorResult(K8sOther))
                  /\ UNCHANGED <<store, fresh>>
               \/ /\ store = NoRecord
                  /\ err' = [err EXCEPT ![w] = K8sNotFound]
                  /\ Return(w, UpdateErrorResult(K8sNotFound))
                  /\ UNCHANGED <<store, fresh>>
               \/ /\ store # NoRecord
                  /\ ~fresh[w]
                  /\ err' = [err EXCEPT ![w] = K8sConflict]
                  /\ Return(w, UpdateErrorResult(K8sConflict))
                  /\ UNCHANGED <<store, fresh>>
               \/ /\ store # NoRecord
                  /\ fresh[w]
                  /\ store' = Finalize(p)
                  /\ fresh' = Stale(w)
                  /\ err' = [err EXCEPT ![w] = nil]
                  /\ Return(w, Result(NoRequeue, nil))

-----------------------------------------------------------------------------
(* The world around the controller *)

Changed == runs' = NoRuns(AllWorkers)

\* a user edits spec.policy
UserEditsPolicy ==
    /\ store # NoRecord
    /\ \E text \in Policies \ {store.Policy} :
          store' = [store EXCEPT !.Policy = text]
    /\ fresh' = [v \in AllWorkers |-> FALSE]
    /\ Changed
    /\ UNCHANGED <<lattice, workers, pc, k8sPolicy, reconcileFunc, step, resId,
                   err, result, calls, fetched>>

\* a user deletes the record: the deletion timestamp is set
UserDeletes ==
    /\ store # NoRecord
    /\ ~store.DeletionTimestamp
    /\ store' = Finalize([store EXCEPT !.DeletionTimestamp = TRUE])
    /\ fresh' = [v \in AllWorkers |-> FALSE]
    /\ Changed
    /\ UNCHANGED <<lattice, workers, pc, k8sPolicy, reconcileFunc, step, resId,
                   err, result, calls, fetched>>

\* the owner of the other finalizer lets go of the record
OtherFinalizerRemoved ==
    /\ store # NoRecord
    /\ store.DeletionTimestamp
    /\ otherFinalizer \in store.Finalizers
    /\ store' = Finalize(RemoveFinalizer(store, otherFinalizer))
    /\ fresh' = [v \in AllWorkers |-> FALSE]
    /\ Changed
    /\ UNCHANGED <<lattice, workers, pc, k8sPolicy, reconcileFunc, step, resId,
                   err, result, calls, fetched>>

\* the gateway controller creates the service network of gw1
ServiceNetworkCreated ==
    /\ serviceNetworks["gw1"] = NoId
    /\ serviceNetworks' = [serviceNetworks EXCEPT !["gw1"] = "sn-123"]
    /\ Changed
    /\ UNCHANGED <<store, services, authType, authPolicy, workers, pc, locals>>

\* the service network of gw1 is deleted, its auth settings with it
ServiceNetworkDeleted ==
    /\ serviceNetworks["gw1"] # NoId
    /\ serviceNetworks' = [serviceNetworks EXCEPT !["gw1"] = NoId]
    /\ authType' = [authType EXCEPT ![serviceNetworks["gw1"]] = FALSE]
    /\ authPolicy' = [authPolicy EXCEPT ![serviceNetworks["gw1"]] = NoPolicy]
    /\ Changed
    /\ UNCHANGED <<store, services, workers, pc, locals>>

\* the route controller creates the service of route1
ServiceCreated ==
    /\ \E n \in SvcNames :
          /\ services[n] = NoId
          /\ services' = [services EXCEPT ![n] = "svc-123"]
    /\ Changed
    /\ UNCHANGED <<store, serviceNetworks, authType, authPolicy, workers, pc, locals>>

\* the service of route1 is deleted, its auth settings with it
ServiceDeleted ==
    /\ \E n \in SvcNames :
          /\ services[n] # NoId
          /\ services' = [services EXCEPT ![n] = NoId]
          /\ authType' = [authType EXCEPT ![services[n]] = FALSE]
          /\ authPolicy' = [authPolicy EXCEPT ![services[n]] = NoPolicy]
    /\ Changed
    /\ UNCHANGED <<store, serviceNetworks, workers, pc, locals>>

-----------------------------------------------------------------------------
(* Specification *)

WorkerStep(w) ==
    \/ ReconcileBegin(w)
    \/ findSnId(w)
    \/ findSvcId(w)
    \/ EnableSnIAMAuth(w)
    \/ EnableSvcIAMAuth(w)
    \/ DisableSnIAMAuth(w)
    \/ DisableSvcIAMAuth(w)
    \/ Delete(w)
    \/ putPolicy(w)
    \/ ReconcileWriteBack(w)

Environment ==
    \/ UserEditsPolicy
    \/ UserDeletes
    \/ OtherFinalizerRemoved
    \/ ServiceNetworkCreated
    \/ ServiceNetworkDeleted
    \/ ServiceCreated
    \/ ServiceDeleted

Next ==
    \/ \E w \in AllWorkers : WorkerStep(w)
    \/ Environment

Spec == Init /\ [][Next]_vars

-----------------------------------------------------------------------------
(* Two deliveries of the same key running at once *)

\* the Lattice resource a policy of the kind resolves to, once it exists
TargetId(kind) == IF kind = "Gateway" THEN "sn-123" ELSE "svc-123"

\* the records the controller meets between two Reconciles: new, reconciled
\* before, or under deletion with the finalizer stored
PairRecords ==
    { NewPolicy(k, {}, a) : k \in SupportedKinds, a \in InitialAnnotations }
    \cup
    { NewPolicy(k, {authPolicyFinalizer}, Annotated(TargetId(k))) :
        k \in SupportedKinds }
    \cup
    { [NewPolicy(k, f, Annotated(TargetId(k))) EXCEPT !.DeletionTimestamp = TRUE] :
        k \in SupportedKinds,
        f \in {{authPolicyFinalizer}, {authPolicyFinalizer, otherFinalizer}} }

\* what earlier Reconciles can have left on the target
PairTargetStates ==
    { <<FALSE, NoPolicy>>, <<TRUE, NoPolicy>>, <<TRUE, "{allow-a}">>,
      <<TRUE, "{allow-b}">> }

InitPair ==
    /\ store \in PairRecords
    /\ serviceNetworks = [n \in SnNames |-> IF n = "gw2" THEN OtherSn ELSE "sn-123"]
    /\ services = [n \in SvcNames |-> "svc-123"]
    /\ \E t \in PairTargetStates :
          /\ authType = [id \in ResourceIds |->
                            IF id = TargetId(store.Kind) THEN t[1] ELSE FALSE]
          /\ authPolicy = [id \in ResourceIds |->
                            IF id = TargetId(store.Kind) THEN t[2] ELSE NoPolicy]
    /\ InitWorkers(AllWorkers)

\* each of the two workers runs one Reconcile, nothing else happens
ReconcileOnce(w) == pc[w] = "idle" /\ ReconcileBegin(w)

NextPair ==
    \E w \in AllWorkers :
        \/ ReconcileOnce(w)
        \/ findSnId(w)
        \/ findSvcId(w)
        \/ EnableSnIAMAuth(w)
        \/ EnableSvcIAMAuth(w)
        \/ DisableSnIAMAuth(w)
        \/ DisableSvcIAMAuth(w)
        \/ Delete(w)
        \/ putPolicy(w)
        \/ ReconcileWriteBack(w)

SpecPair == InitPair /\ [][NextPair]_vars

-----------------------------------------------------------------------------
(* Re-delivery of one key until nothing changes any more *)

\* records the controller can be handed again and again: those of
\* PairRecords, a record deleted before the finalizer was stored and held by
\* another finalizer, and a record whose targetRef was edited to an
\* unsupported kind after the finalizer was stored
LiveRecords ==
    PairRecords
    \cup
    { [NewPolicy(k, {otherFinalizer}, a) EXCEPT !.DeletionTimestamp = TRUE] :
        k \in SupportedKinds, a \in InitialAnnotations }
    \cup
    { [NewPolicy("Service", {authPolicyFinalizer}, Annotated("sn-123"))
          EXCEPT !.DeletionTimestamp = TRUE] }

\* the target exists, with what earlier Reconciles left on it, or it does not
InitLive ==
    /\ store \in LiveRecords
    /\ \E exists \in BOOLEAN :
          /\ serviceNetworks = [n \in SnNames |->
                IF n = "gw2" THEN OtherSn
                ELSE IF exists THEN "sn-123" ELSE NoId]
          /\ services = [n \in SvcNames |-> IF exists THEN "svc-123" ELSE NoId]
          /\ \E t \in IF exists /\ store.Kind \in SupportedKinds
                      THEN PairTargetStates
                      ELSE {<<FALSE, NoPolicy>>} :
                /\ authType = [id \in ResourceIds |->
                      IF id = TargetId(store.Kind) THEN t[1] ELSE FALSE]
                /\ authPolicy = [id \in ResourceIds |->
                      IF id = TargetId(store.Kind) THEN t[2] ELSE NoPolicy]
    /\ InitWorkers({"w1"})

NextLive == \E w \in AllWorkers : WorkerStep(w)

\* the step of w that is taken does not end in an error
StepOk(w) ==
    /\ err'[w] = nil
    /\ pc'[w] = "done" => result'[w] = Result(NoRequeue, nil)

\* the key is delivered again whenever a Reconcile has ended, a Reconcile
\* under way goes on, and a call that can succeed and is made again and
\* again does succeed in the end
Fairness(w) ==
    /\ WF_vars(WorkerStep(w))
    /\ SF_vars(ReconcileBegin(w) /\ StepOk(w))
    /\ SF_vars(findSnId(w) /\ StepOk(w))
    /\ SF_vars(findSvcId(w) /\ StepOk(w))
    /\ SF_vars(EnableSnIAMAuth(w) /\ StepOk(w))
    /\ SF_vars(EnableSvcIAMAuth(w) /\ StepOk(w))
    /\ SF_vars(DisableSnIAMAuth(w) /\ StepOk(w))
    /\ SF_vars(DisableSvcIAMAuth(w) /\ StepOk(w))
    /\ SF_vars(Delete(w) /\ StepOk(w))
    /\ SF_vars(putPolicy(w) /\ StepOk(w))
    /\ SF_vars(ReconcileWriteBack(w) /\ StepOk(w))

SpecLive == InitLive /\ [][NextLive]_vars /\ Fairness("w1")
-----------------------------------------------------------------------------
(* Properties *)

Done(w) == w \in workers /\ pc[w] = "done"
Got(w)  == fetched[w] # NoRecord
Marker  == authPolicyFinalizer

ResolverOps == {"FindServiceNetworkByK8sName", "FindServiceByK8sName"}
DisableOps  == {"DisableSnIAMAuth", "DisableSvcIAMAuth"}
EnableOps   == {"EnableSnIAMAuth", "EnableSvcIAMAuth"}
ManagerOps  == EnableOps \cup DisableOps \cup {"Put", "Delete"}

Ops(w)      == [i \in DOMAIN calls[w] |-> calls[w][i].op]
OpsSet(w)   == {calls[w][i].op : i \in DOMAIN calls[w]}
LastOp(w)   == IF calls[w] = << >> THEN "none" ELSE calls[w][Len(calls[w])].op
Count(w, op) == Cardinality({i \in DOMAIN calls[w] : calls[w][i].op = op})

\* C1: a Reconcile of a Gateway, HTTPRoute or GRPCRoute policy whose pipeline
\* (upsert or delete) ended with a Lattice not-found error returns
\* RequeueAfter = 30 seconds and a nil error.
C1_NotFoundRequeuesAfter30s ==
    \A w \in workers :
        (Done(w) /\ Got(w) /\ fetched[w].Kind \in SupportedKinds
                 /\ err[w] = LatticeNotFound)
        => result[w] = [RequeueAfter |-> 30, err |-> nil]

C1_Witness ==
    \E w \in workers :
        /\ Done(w) /\ Got(w)
        /\ reconcileFunc[w] = "deleteRoutePolicy"
        /\ LastOp(w) = "FindServiceByK8sName"
        /\ err[w] = LatticeNotFound
        /\ result[w].RequeueAfter = 30

\* C2: a Reconcile of a policy whose kind is not Gateway, HTTPRoute or
\* GRPCRoute, deleted or not, returns RequeueAfter = 1 hour and a nil error
\* and calls neither the resolver nor the policy manager.
C2_UnsupportedKindRequeuesAfterOneHour ==
    \A w \in workers :
        (Done(w) /\ Got(w) /\ fetched[w].Kind \notin SupportedKinds)
        => /\ result[w] = [RequeueAfter |-> 3600, err |-> nil]
           /\ OpsSet(w) \cap (ResolverOps \cup ManagerOps) = {}

C2_Witness ==
    \E w \in workers :
        /\ Done(w) /\ Got(w)
        /\ fetched[w].Kind = "Service"
        /\ fetched[w].DeletionTimestamp
        /\ result[w].RequeueAfter = 3600
        /\ calls[w] = <<Call("Get", NoId, "")>>

\* C3: within one Reconcile every DisableSnIAMAuth / DisableSvcIAMAuth call
\* on an id comes after a policyMgr.Delete call on the same id.
C3_DetachBeforeDisable ==
    \A w \in workers :
        \A j \in DOMAIN calls[w] :
            calls[w][j].op \in DisableOps
            => \E i \in 1 .. (j - 1) :
                  /\ calls[w][i].op = "Delete"
                  /\ calls[w][i].id = calls[w][j].id

C3_Witness ==
    \E w \in workers :
        /\ Len(calls[w]) >= 4
        /\ calls[w][3].op = "Delete"
        /\ calls[w][4].op = "DisableSnIAMAuth"
        /\ calls[w][4].id = "sn-123"
        /\ ~authType["sn-123"]

\* C4: a Reconcile of a supported, not deleted policy in which the resolver
\* returned R and no call failed has called Enable*IAMAuth(R) and then
\* Put(R, spec.policy) and nothing else on the manager, and has written the
\* record back with the resource id annotation set to R.
C4_UpsertEnablesPutsAndAnnotates ==
    \A w \in workers :
        (Done(w) /\ Got(w) /\ fetched[w].Kind \in SupportedKinds
                 /\ ~fetched[w].DeletionTimestamp /\ err[w] = nil)
        => \E R \in ResourceIds :
              /\ Len(calls[w]) = 5
              /\ calls[w][2].op \in ResolverOps
              /\ calls[w][3].op \in EnableOps /\ calls[w][3].id = R
              /\ calls[w][4] = Call("Put", R, fetched[w].Policy)
              /\ calls[w][5] = Call("Update", R, "")
              /\ k8sPolicy[w].Annotations = Annotated(R)
              /\ result[w] = [RequeueAfter |-> 0, err |-> nil]

\* C5: after a Reconcile of a supported policy that was fetched under
\* deletion with the finalizer on it, whose delete pipeline and Update both
\* succeeded, the stored record does not carry the finalizer.
C5_MarkerRemovedAfterDelete ==
    \A w \in workers :
        (Done(w) /\ Got(w) /\ fetched[w].Kind \in SupportedKinds
                 /\ fetched[w].DeletionTimestamp
                 /\ Marker \in fetched[w].Finalizers
                 /\ LastOp(w) = "Update" /\ err[w] = nil)
        => Marker \notin store.Finalizers

C5_Witness ==
    \E w \in workers :
        /\ Done(w) /\ Got(w)
        /\ fetched[w].DeletionTimestamp
        /\ Marker \in fetched[w].Finalizers
        /\ Ops(w) = <<"Get", "FindServiceNetworkByK8sName", "Delete",
                      "DisableSnIAMAuth", "Update">>
        /\ err[w] = nil
        /\ store # NoRecord
        /\ store.Finalizers = {otherFinalizer}

\* C6: after a Reconcile of a policy that was fetched not deleted and
\* without the finalizer, the stored record carries the finalizer, whatever
\* the kind and whatever the outcome of the pipeline.
C6_MarkerStoredAfterOneReconcile ==
    \A w \in workers :
        (Done(w) /\ Got(w) /\ ~fetched[w].DeletionTimestamp
                 /\ Marker \notin fetched[w].Finalizers)
        => Marker \in store.Finalizers

\* no Lattice resource has the IAM auth type or an auth policy attached
CloudClean ==
    \A id \in ResourceIds : ~authType[id] /\ authPolicy[id] = NoPolicy

\* C7: the record leaves the store only when no Lattice resource still has
\* the IAM auth type or the auth policy that this controller set for it,
\* that is, after Delete and Disable*IAMAuth have run for its target.
C7_CleanupBeforeRemoval ==
    [][(store # NoRecord /\ store' = NoRecord) => CloudClean]_vars

\* C8: when a pipeline that ran to its end without error is run again on the
\* same record with nothing changed in between, Lattice holds after the
\* second run the auth types and the auth policies it held after the first.
C8_PipelineIdempotent ==
    (runs.prev.func # NoFunc /\ runs.prev.ok /\ runs.last.func = runs.prev.func)
    => /\ runs.last.authType = runs.prev.authType
       /\ runs.last.authPolicy = runs.prev.authPolicy

C8_Witness ==
    /\ runs.prev.func = "upsertGatewayPolicy"
    /\ runs.prev.ok
    /\ runs.last.func = "upsertGatewayPolicy"
    /\ runs.last.ok
    /\ runs.last.authType["sn-123"]
    /\ runs.last.authPolicy["sn-123"] = "{allow-a}"

\* C9: a Reconcile whose Get found no record returns no requeue and a nil
\* error and has made no call but the Get.
C9_AbsentRecordIsNoOp ==
    \A w \in workers :
        (Done(w) /\ ~Got(w) /\ err[w] = K8sNotFound)
        => /\ result[w] = [RequeueAfter |-> 0, err |-> nil]
           /\ calls[w] = <<Call("Get", NoId, "")>>
           /\ k8sPolicy[w] = ZeroPolicy

C9_Witness ==
    \E w \in workers :
        /\ Done(w) /\ ~Got(w)
        /\ err[w] = K8sNotFound
        /\ store = NoRecord
        /\ result[w].err = nil

\* C10: a Reconcile whose Update failed returns the error of Update with no
\* requeue delay, and has called Update once.
C10_UpdateErrorSurfaced ==
    \A w \in workers :
        (Done(w) /\ LastOp(w) = "Update" /\ err[w] # nil)
        => /\ result[w] = [RequeueAfter |-> 0, err |-> err[w]]
           /\ err[w] \in {K8sConflict, K8sNotFound, K8sOther}
           /\ Count(w, "Update") = 1

C10_Witness ==
    \E w \in workers :
        /\ Done(w)
        /\ LastOp(w) = "Update"
        /\ err[w] = K8sConflict
        /\ result[w].err = K8sConflict

\* the errors the collaborators hand to Reconcile
ReturnedErrors == {LatticeNotFound, LatticeOther, K8sNotFound, K8sConflict, K8sOther}

\* C11: every Reconcile ends by returning one of (no requeue, nil),
\* (30 seconds, nil), (1 hour, nil) or (no requeue, an error); a pipeline
\* error that is not of the not-found class is returned as it is, and no
\* requeue delay comes with an error.
C11_FourOutcomes ==
    \A w \in workers :
        Done(w)
        => /\ \/ result[w] = [RequeueAfter |-> 0, err |-> nil]
              \/ result[w] = [RequeueAfter |-> 30, err |-> nil]
              \/ result[w] = [RequeueAfter |-> 3600, err |-> nil]
              \/ /\ result[w].RequeueAfter = 0
                 /\ result[w].err \in ReturnedErrors
           /\ (LastOp(w) \in ResolverOps \cup ManagerOps /\ err[w] = LatticeOther)
              => result[w] = [RequeueAfter |-> 0, err |-> err[w]]
           /\ result[w].RequeueAfter # 0 => result[w].err = nil

\* the pipeline of w has run to its end without an error
PipelineOk(w) ==
    /\ w \in workers
    /\ pc[w] \in {"writeback", "done"}
    /\ reconcileFunc[w] # NoFunc
    /\ ~(LastOp(w) \in ResolverOps \cup ManagerOps /\ err[w] # nil)

IsUpsert(f) == f \in {"upsertGatewayPolicy", "upsertRoutePolicy"}

\* what one execution of the pipeline of w, run alone, leaves on its target
LeftByOneRun(w) ==
    LET R == calls[w][3].id IN
    IF IsUpsert(reconcileFunc[w])
    THEN authType[R] /\ authPolicy[R] = fetched[w].Policy
    ELSE ~authType[R] /\ authPolicy[R] = NoPolicy

\* C12: when the two workers run the pipeline of the same record at once,
\* their calls interleaved in any order and no call failing, the target has
\* afterwards the auth type and the policy that one execution alone leaves
\* (the case of one worker finished and the other not started).
C12_ConcurrentRunsAsOne ==
    ( /\ \E w \in workers : PipelineOk(w)
      /\ \A w \in workers : PipelineOk(w) \/ pc[w] = "idle" )
    => \A w \in workers : PipelineOk(w) => LeftByOneRun(w)

C12_Witness ==
    /\ \A w \in AllWorkers :
          /\ PipelineOk(w)
          /\ pc[w] = "writeback"
          /\ reconcileFunc[w] = "upsertGatewayPolicy"
    /\ authType["sn-123"]
    /\ authPolicy["sn-123"] = "{allow-a}"

\* the delete pipeline of w has made its Delete call and, after it, its
\* Disable*IAMAuth call, and neither failed
CleanupCompleted(w) ==
    /\ \E i, j \in DOMAIN calls[w] :
          /\ i < j
          /\ calls[w][i].op = "Delete"
          /\ calls[w][j].op \in DisableOps
    /\ ~(LastOp(w) \in ManagerOps /\ err[w] # nil)

\* w fetched a record under deletion that carried the marker
FetchedForCleanup(w) ==
    /\ w \in workers
    /\ Got(w)
    /\ isDelete(fetched[w])
    /\ Marker \in fetched[w].Finalizers

\* C13 as stated: within a Reconcile of a record under deletion that has the
\* marker, the record that Reconcile holds loses the marker only once the
\* Delete and Disable*IAMAuth calls of the delete pipeline have completed.
C13_GateRemovesAfterCleanup ==
    \A w \in workers :
        (FetchedForCleanup(w) /\ Marker \notin k8sPolicy[w].Finalizers)
        => CleanupCompleted(w)

\* C13 amended: the stored record loses the marker only through the Update
\* of a Reconcile whose Delete and Disable*IAMAuth calls have both completed
\* (the copy held by Reconcile loses it at line 46, before the pipeline).
C13_StoredMarkerRemovedAfterCleanup ==
    [][ ( /\ store # NoRecord
          /\ Marker \in store.Finalizers
          /\ (store' = NoRecord \/ Marker \notin store'.Finalizers) )
        => \E w \in workers :
              /\ pc[w] = "writeback"
              /\ FetchedForCleanup(w)
              /\ CleanupCompleted(w)
              /\ LastOp(w)' = "Update" ]_vars

C13_Witness ==
    \E w \in workers :
        /\ Done(w)
        /\ FetchedForCleanup(w)
        /\ CleanupCompleted(w)
        /\ LastOp(w) = "Update"
        /\ result[w] = Result(NoRequeue, nil)
        /\ (store = NoRecord \/ Marker \notin store.Finalizers)

\* the Lattice calls of a Reconcile, in order (Get and Update are calls on
\* the store)
LatticeOps(w) ==
    SelectSeq(Ops(w), LAMBDA op : op \in ResolverOps \cup ManagerOps)

IsPrefix(a, b) ==
    /\ Len(a) <= Len(b)
    /\ \A i \in DOMAIN a : a[i] = b[i]

\* the calls a policy of the kind is due, by the text of the claim
DueOps(kind, deletionRequested) ==
    IF kind = "Gateway"
    THEN IF deletionRequested
         THEN <<"FindServiceNetworkByK8sName", "Delete", "DisableSnIAMAuth">>
         ELSE <<"FindServiceNetworkByK8sName", "EnableSnIAMAuth", "Put">>
    ELSE IF deletionRequested
         THEN <<"FindServiceByK8sName", "Delete", "DisableSvcIAMAuth">>
         ELSE <<"FindServiceByK8sName", "EnableSvcIAMAuth", "Put">>

SnOps  == {"FindServiceNetworkByK8sName", "EnableSnIAMAuth", "DisableSnIAMAuth"}
SvcOps == {"FindServiceByK8sName", "EnableSvcIAMAuth", "DisableSvcIAMAuth"}

\* C14: the Lattice calls of a Reconcile are decided by the kind of the
\* target and by whether deletion is requested, and by nothing else of the
\* record or of Lattice: a Gateway is resolved as a service network by the
\* target's name and gets the service-network enable or disable call,
\* HTTPRoute and GRPCRoute alike are resolved as a service by the name made
\* of the target's name and the namespace and get the service calls;
\* deletion gives Delete then disable, otherwise enable then Put; no
\* service-network call for a route, no service call for a Gateway.
C14_SelectionByKindAndDeletion ==
    \A w \in workers :
        (Got(w) /\ fetched[w].Kind \in SupportedKinds)
        => LET p == fetched[w] IN
           /\ IsPrefix(LatticeOps(w), DueOps(p.Kind, p.DeletionTimestamp))
           /\ Len(calls[w]) >= 2
              => calls[w][2].text =
                    IF p.Kind = "Gateway"
                    THEN p.Name
                    ELSE LatticeServiceName(p.Name, p.Namespace)
           /\ p.Kind = "Gateway" => OpsSet(w) \cap SvcOps = {}
           /\ p.Kind # "Gateway" => OpsSet(w) \cap SnOps = {}

C14_Witness ==
    \E w \in workers :
        /\ Done(w)
        /\ Got(w)
        /\ fetched[w].Kind = "GRPCRoute"
        /\ fetched[w].DeletionTimestamp
        /\ LatticeOps(w) = <<"FindServiceByK8sName", "Delete", "DisableSvcIAMAuth">>
        /\ calls[w][2].text = "route1-ns1"
        /\ result[w] = Result(NoRequeue, nil)

\* the errors a pipeline step ends with
LatticeErrors == {LatticeNotFound, LatticeOther}

\* C15: when a call of a pipeline (the resolver's, enable, Put, Delete or
\* disable) returns an error, that call is the last call of the Reconcile:
\* the calls made are the pipeline's calls up to the failing one, each once,
\* with no later step, no call undoing an earlier step and no Update; the
\* pipeline returns the empty resource id with that error, and Reconcile
\* returns straight away with it (or with the 30 s requeue of C1).
C15_FailingStepAborts ==
    \A w \in workers :
        err[w] \in LatticeErrors
        => /\ Done(w)
           /\ Got(w)
           /\ LatticeOps(w) # << >>
           /\ IsPrefix(LatticeOps(w),
                       DueOps(fetched[w].Kind, fetched[w].DeletionTimestamp))
           /\ Ops(w) = <<"Get">> \o LatticeOps(w)
           /\ resId[w] = NoId
           /\ result[w] = IF err[w] = LatticeNotFound
                          THEN [RequeueAfter |-> 30, err |-> nil]
                          ELSE [RequeueAfter |-> 0, err |-> err[w]]

\* Put fails after the enable call succeeded: nothing disables again
C15_Witness ==
    \E w \in workers :
        /\ Done(w)
        /\ err[w] = LatticeOther
        /\ Ops(w) = <<"Get", "FindServiceNetworkByK8sName", "EnableSnIAMAuth", "Put">>
        /\ authType[calls[w][3].id]
        /\ authPolicy[calls[w][3].id] = NoPolicy
        /\ resId[w] = NoId
        /\ result[w] = Result(NoRequeue, LatticeOther)

\* a Reconcile has stopped at a failing call of its pipeline
Aborted == \E w \in workers : Done(w) /\ err[w] \in LatticeErrors

\* the stored policy is of a supported kind and its target exists
TargetExists ==
    /\ store # NoRecord
    /\ store.Kind \in SupportedKinds
    /\ ResourceExists(TargetId(store.Kind))

\* Lattice has what the stored record asks for
Converged ==
    IF store = NoRecord
    THEN CloudClean
    ELSE LET T == TargetId(store.Kind) IN
         IF store.DeletionTimestamp
         THEN /\ ~authType[T]
              /\ authPolicy[T] = NoPolicy
              /\ Marker \notin store.Finalizers
         ELSE /\ authType[T]
              /\ authPolicy[T] = store.Policy

\* C16: for a policy of a supported kind whose target exists, once a
\* Reconcile has stopped at a failing call, after any part of its pipeline,
\* the re-delivered Reconciles bring Lattice to what the record asks for: not
\* deleted, auth type on and the attached policy equal to spec.policy;
\* deleted, no attached policy, auth type off and no finalizer of this
\* controller on the stored record. Re-delivery is fair and a call that can
\* succeed does so in the end (SpecLive).
C16_ConvergesAfterAbort == (Aborted /\ TargetExists) ~> Converged

\* a Reconcile that failed, and the one after it that went through
C16_Witness ==
    \E w \in workers :
        /\ Done(w)
        /\ result[w] = Result(NoRequeue, nil)
        /\ LastOp(w) = "Update"
        /\ runs.prev.func = reconcileFunc[w]
        /\ ~runs.prev.ok
        /\ runs.last.ok
        /\ Converged

\* w runs a delete pipeline
Deleting(w) ==
    /\ w \in workers
    /\ Got(w)
    /\ isDelete(fetched[w])
    /\ reconcileFunc[w] \in {"deleteGatewayPolicy", "deleteRoutePolicy"}

\* C17 as stated: every Reconcile of a policy under deletion whose target
\* resolved has invoked Disable*IAMAuth by the time it returns, whether or
\* not a policy was attached.
C17_DisableAlwaysInvoked ==
    \A w \in workers :
        (Deleting(w) /\ Done(w) /\ LastOp(w) \notin ResolverOps \cup {"Get"})
        => OpsSet(w) \cap DisableOps # {}

\* C17 amended: in a delete pipeline, once Delete has returned without an
\* error the next call is Disable*IAMAuth on the resolved resource, whether
\* or not a policy was attached before Delete; when Delete returns an error
\* the Reconcile ends without the disable call.
C17_DisableAfterDetach ==
    \A w \in workers :
        Deleting(w)
        => /\ (pc[w] = "pipeline" /\ LastOp(w) = "Delete")
              => CurrentStep(w) \in {"DisableSnIAMAuth", "DisableSvcIAMAuth"}
           /\ (pc[w] # "pipeline" /\ "Delete" \in OpsSet(w))
              => IF LastOp(w) = "Delete"
                 THEN err[w] \in LatticeErrors
                 ELSE \E i \in DOMAIN calls[w] :
                         /\ i > 1
                         /\ calls[w][i - 1].op = "Delete"
                         /\ calls[w][i].op \in DisableOps
                         /\ calls[w][i].id = calls[w][i - 1].id

\* the Reconcile before left no policy on the target, nothing changed
\* since, and this Reconcile went on from Delete to the disable call
C17_Witness ==
    \E w \in workers :
        /\ Deleting(w)
        /\ Done(w)
        /\ Len(calls[w]) >= 4
        /\ Ops(w)[3] = "Delete"
        /\ Ops(w)[4] \in DisableOps
        /\ runs.prev.func = reconcileFunc[w]
        /\ runs.prev.ok
        /\ runs.last.ok
        /\ runs.prev.authPolicy[calls[w][3].id] = NoPolicy

\* C18: handleFinalizer leaves alone a record that has the finalizer and is
\* not under deletion and a record that lacks it and is under deletion; of
\* the record it changes only this controller's finalizer; applied twice it
\* gives what it gives applied once; and every Reconcile that got the record
\* has applied it to its copy before the switch on the kind, so that the
\* copy of a policy of an unsupported kind has it applied as well.
C18_LifecycleGate ==
    \A w \in workers :
        Got(w)
        => LET p == fetched[w]
               q == k8sPolicy[w]
               g == handleFinalizer(p)
           IN /\ (Marker \in p.Finalizers /\ ~p.DeletionTimestamp) => g = p
              /\ (Marker \notin p.Finalizers /\ p.DeletionTimestamp) => g = p
              /\ [g EXCEPT !.Finalizers = p.Finalizers] = p
              /\ g.Finalizers \ {Marker} = p.Finalizers \ {Marker}
              /\ handleFinalizer(g) = g
              /\ [q EXCEPT !.Annotations = p.Annotations] = g
              /\ (Marker \in q.Finalizers) = ~p.DeletionTimestamp

\* a new policy of kind Service: its copy got the finalizer, next to the
\* finalizer of another controller, and Reconcile returned at the default
\* branch
C18_Witness ==
    \E w \in workers :
        /\ Done(w)
        /\ Got(w)
        /\ fetched[w].Kind = "Service"
        /\ fetched[w].Finalizers = {otherFinalizer}
        /\ k8sPolicy[w].Finalizers = {otherFinalizer, Marker}
        /\ result[w] = UnsupportedResult

\* the Reconcile of w ended short of success: at the default branch of the
\* switch, or with a pipeline error (not-found or any other)
EndedShort(w) ==
    /\ Done(w)
    /\ Got(w)
    /\ \/ result[w] = UnsupportedResult
       \/ err[w] \in LatticeErrors

\* a step of a Reconcile (and not of the world around it) writes the record
ReconcileWrites ==
    /\ store' # store
    /\ \E w \in workers : pc'[w] # pc[w] \/ calls'[w] # calls[w]

\* C19: a Reconcile that ends at the default branch (1 hour), with a
\* not-found error (30 seconds) or with another pipeline error has not
\* called Update, and no step of it has written the stored record: the
\* finalizer handleFinalizer put on or took off the copy and the resourceId
\* annotation are not stored. The stored record is written by Reconcile
\* only in the Update of a Reconcile whose pipeline returned no error.
C19_NoWriteUnlessPipelineSucceeded ==
    /\ [](\A w \in workers : EndedShort(w) => "Update" \notin OpsSet(w))
    /\ [][ ReconcileWrites
           => \E w \in workers :
                 /\ pc[w] = "writeback"
                 /\ err[w] = nil
                 /\ LastOp(w)' = "Update"
                 /\ result'[w] = Result(NoRequeue, nil) ]_vars

\* the target was not found: the finalizer is on the copy, not in the store
C19_Witness ==
    \E w \in workers :
        /\ EndedShort(w)
        /\ result[w] = Result(ThirtySeconds, nil)
        /\ store = fetched[w]
        /\ Marker \notin store.Finalizers
        /\ Marker \in k8sPolicy[w].Finalizers
        /\ "Update" \notin OpsSet(w)

\* the stored record is under deletion and holds this controller's finalizer
AwaitsCleanup ==
    /\ store # NoRecord
    /\ store.DeletionTimestamp
    /\ Marker \in store.Finalizers

\* C20: under fair re-delivery (SpecLive) a stored record under deletion
\* that holds this controller's finalizer loses it in the end, also when
\* the resolver finds no target for it and when its kind is unsupported.
C20_DeletionCompletes ==
    AwaitsCleanup ~> (store = NoRecord \/ Marker \notin store.Finalizers)
====
